---------------------------- MODULE Spec2Model ----------------------------
(***************************************************************************)
(* The semiring algebra layer of src/model/torch_struct/semirings:         *)
(* Counting, Log, Max, K-Max and the expectation semirings (KL-divergence, *)
(* cross-entropy, entropy, risk), as used by a dynamic program that holds  *)
(* raw potentials, converts them, combines values with mul / plus / sum    *)
(* and unconverts the answer.                                              *)
(*                                                                         *)
(* Numbers.  A score is the exact number  s * (-1e12) + f,  kept as the    *)
(* record [s, f]: s counts how many sentinels (NEGINF, semirings.py:16)    *)
(* were added into it and f is the finite part.  Sums and comparisons of   *)
(* such records are exact as long as |f| stays far below 1e12, which the   *)
(* bounds guarantee; this is what torch computes on float64 tensors with   *)
(* integer-valued entries.                                                 *)
(*                                                                         *)
(* Tensors.  A value is a sequence over the leading semiring axis of       *)
(* sequences over the last (structure) axis: xs[c][i], shape (ssize, n).   *)
(* plus() stacks two values on a new last axis, giving xs[c][i][j].        *)
(***************************************************************************)
EXTENDS Integers, Sequences, FiniteSets

VARIABLES sem, k, p, q, a, b, op, res, idx, err, dim, mask, fed

vars == <<sem, k, p, q, a, b, op, res, idx, err, dim, mask, fed>>

(* ------------------------------ bounds --------------------------------- *)

\* largest k of a KMaxSemiring(k)
MaxK == 3
\* largest length of the structure axis
MaxN == 3
\* how many results the caller feeds back as an operand
MaxFeed == 1
\* fractional bits of the fixed-point softmax weights (see Exp2)
Prec == 3

\* entries of the potentials p, and of the second tensor q
PotVals == {1, 2, 3}
QVals == {1, 3}

(* ------------------------------ scores --------------------------------- *)

Sc(f) == [s |-> 0, f |-> f]

\* NEGINF = -1e12: one sentinel unit
NEGINF == [s |-> 1, f |-> 0]

Add(x, y) == [s |-> x.s + y.s, f |-> x.f + y.f]

Sub(x, y) == [s |-> x.s - y.s, f |-> x.f - y.f]

\* x <= y as numbers: more sentinels is smaller
Leq(x, y) == x.s > y.s \/ (x.s = y.s /\ x.f <= y.f)

\* torch.mul on scores; one factor is always sentinel-free in the counting
\* semiring, whose identities are 0 and 1
Times(x, y) ==
    IF x.s = 0 THEN [s |-> y.s * x.f, f |-> y.f * x.f]
    ELSE [s |-> x.s * y.f, f |-> x.f * y.f]

RECURSIVE SeqSum(_)
SeqSum(v) == IF v = <<>> THEN Sc(0) ELSE Add(v[1], SeqSum(Tail(v)))

(* ------------------------------ tensors -------------------------------- *)

\* xs.fill_(v) on a tensor of shape (ssize, n)
Fill(xs, v) == [c \in 1..Len(xs) |-> [i \in 1..Len(xs[c]) |-> v]]

\* torch.zeros((ssize, n))
Zeros(ssize, n) == [c \in 1..ssize |-> [i \in 1..n |-> Sc(0)]]

\* a raw potentials tensor as scores
Pot(v) == [i \in 1..Len(v) |-> Sc(v[i])]

\* torch.stack([x, y], dim=-1) of two (ssize, n) tensors
Stack(x, y) == [c \in 1..Len(x) |-> [i \in 1..Len(x[c]) |-> <<x[c][i], y[c][i]>>]]

\* the (ssize, m) slice of a (ssize, n, m) tensor at position i
At(xs, i) == [c \in 1..Len(xs) |-> xs[c][i]]

(* ---------------------------- torch.topk ------------------------------- *)

MaxIdx(v, I) == CHOOSE i \in I : \A j \in I : Leq(v[j], v[i])

RECURSIVE TopKFrom(_, _, _)
TopKFrom(v, I, kk) ==
    IF kk = 0 THEN <<>>
    ELSE LET i == MaxIdx(v, I)
         IN  <<v[i]>> \o TopKFrom(v, I \ {i}, kk - 1)

\* torch.topk(v, kk)[0]: the kk largest entries, largest first
TopKValues(v, kk) == TopKFrom(v, 1..Len(v), kk)

RECURSIVE TopKIdxFrom(_, _, _, _)
TopKIdxFrom(v, used, r, vals) ==
    IF r > Len(vals) THEN {<<>>}
    ELSE UNION {{<<i - 1>> \o t : t \in TopKIdxFrom(v, used \cup {i}, r + 1, vals)} :
                  i \in {j \in (1..Len(v)) \ used : v[j] = vals[r]}}

\* torch.topk(v, kk)[1]: every index vector torch may return (0-based);
\* which of several equal entries is reported is not specified
TopKIndices(v, kk) == TopKIdxFrom(v, {}, 1, TopKValues(v, kk))

\* torch.max(v)[0] of a non-empty vector
SeqMax(v) == v[MaxIdx(v, 1..Len(v))]

\* torch.max(v)[1]: every argmax torch may return (0-based)
ArgMaxes(v) == {i - 1 : i \in {j \in 1..Len(v) : v[j] = SeqMax(v)}}

(* ------------------- exp and logsumexp, fixed point -------------------- *)
(* Log-domain scores are read in units of ln 2.  A softmax weight is kept   *)
(* as an integer number of 2^-Prec steps, and exp and log round down to     *)
(* that grid, as float arithmetic rounds to its own.                        *)

RECURSIVE Pow2(_)
Pow2(e) == IF e <= 0 THEN 1 ELSE 2 * Pow2(e - 1)

RECURSIVE ILog2(_)
ILog2(t) == IF t < 2 THEN 0 ELSE 1 + ILog2(t \div 2)

\* exp of a score d: a gap of a whole sentinel underflows to 0
Exp2(d) == IF d.s > 0 \/ d.f < -Prec THEN 0 ELSE Pow2(Prec + d.f)

RECURSIVE WSum(_)
WSum(w) == IF w = <<>> THEN 0 ELSE w[1] + WSum(Tail(w))

\* torch.logsumexp(v): max + log(sum(exp(v - max)))
LogSumExp(v) ==
    LET m == SeqMax(v)
        w == [i \in 1..Len(v) |-> Exp2(Sub(v[i], m))]
    IN  Add(m, Sc(ILog2(WSum(w)) - Prec))

\* x.mul(w) for a softmax weight w
MulW(x, w) == [s |-> (x.s * w) \div Pow2(Prec), f |-> (x.f * w) \div Pow2(Prec)]

(* ------------------------- reductions over a dim ----------------------- *)

\* an operation that raised: nothing is returned
Fail == [ok |-> FALSE, val |-> <<>>]

Ok(v) == [ok |-> TRUE, val |-> v]

\* torch's reading of dim on a tensor of nd axes: the axis, or -1 (IndexError)
WrapDim(d, nd) == IF d >= -nd /\ d < nd THEN (d + nd) % nd ELSE -1

\* the vectors a torch reduction of the (ssize, n) tensor xs over dim d
\* reduces: the rows for the last axis, the columns for the leading one
Lanes(xs, d) ==
    IF WrapDim(d, 2) = 1 THEN xs
    ELSE [i \in 1..Len(xs[1]) |-> [c \in 1..Len(xs) |-> xs[c][i]]]

(* ------------------------------ Semiring ------------------------------- *)

Semirings == {"StdSemiring", "LogSemiring", "MaxSemiring", "KMaxSemiring",
              "KLDivergenceSemiring", "CrossEntropySemiring",
              "EntropySemiring", "RiskSemiring"}

\* the semirings whose convert takes a list [p, q] of two tensors
TwoStream == {"KLDivergenceSemiring", "CrossEntropySemiring", "RiskSemiring"}

\* Semiring.convert: potentials.unsqueeze(0)
Semiring_convert(pt) == <<pt>>

\* Semiring.unconvert: potentials.squeeze(0)
Semiring_unconvert(v) == IF Len(v) = 1 THEN v[1] ELSE v

\* Semiring.zero_mask_: xs.masked_fill_(mask.unsqueeze(0), cls.zero)
Semiring_zero_mask_(xs, m, zero) ==
    [c \in 1..Len(xs) |-> [i \in 1..Len(xs[c]) |-> IF m[i] THEN zero ELSE xs[c][i]]]

(* ------------------------- _Base and StdSemiring ----------------------- *)

Base_zero == Sc(0)

Base_mul(x, y) == [c \in 1..Len(x) |-> [i \in 1..Len(x[c]) |-> Times(x[c][i], y[c][i])]]

Base_zero_(xs) == Fill(xs, Sc(0))

Base_one_(xs) == Fill(xs, Sc(1))

StdSemiring_sum(xs, d) ==
    IF WrapDim(d, 2) = -1 THEN Fail
    ELSE Ok([l \in 1..Len(Lanes(xs, d)) |-> SeqSum(Lanes(xs, d)[l])])

(* ------------------- _BaseLog, LogSemiring, MaxSemiring ---------------- *)

BaseLog_zero == NEGINF

BaseLog_sum(xs, d) ==
    IF WrapDim(d, 2) = -1 THEN Fail
    ELSE Ok([l \in 1..Len(Lanes(xs, d)) |-> LogSumExp(Lanes(xs, d)[l])])

BaseLog_mul(x, y) == [c \in 1..Len(x) |-> [i \in 1..Len(x[c]) |-> Add(x[c][i], y[c][i])]]

BaseLog_zero_(xs) == Fill(xs, NEGINF)

BaseLog_one_(xs) == Fill(xs, Sc(0))

\* MaxSemiring without its own sum: the logsumexp it inherits from _BaseLog
MaxSemiring_sum_inherited(xs, d) == BaseLog_sum(xs, d)

MaxSemiring_sum(xs, d) ==
    IF WrapDim(d, 2) = -1 THEN Fail
    ELSE Ok([l \in 1..Len(Lanes(xs, d)) |-> SeqMax(Lanes(xs, d)[l])])

(* ----------------------------- KMaxSemiring ---------------------------- *)

KMaxSemiring_size(kk) == kk

KMaxSemiring_convert(kk, pt) ==
    [c \in 1..kk |-> IF c = 1 THEN pt ELSE [i \in 1..Len(pt) |-> NEGINF]]

KMaxSemiring_one_(xs) ==
    [c \in 1..Len(xs) |-> [i \in 1..Len(xs[c]) |-> IF c = 1 THEN Sc(0) ELSE NEGINF]]

\* unconvert taking the last slot, as the expectation semirings do
KMaxSemiring_unconvert_last(v) == v[Len(v)]

KMaxSemiring_unconvert(v) == v[1]

\* permute the leading axis to the back and view the last two axes as one:
\* entry t (0-based) of the flat axis is slot t % ssize of position t // ssize
Flatten(xs) ==
    LET ss == Len(xs)
    IN  [t \in 1..(Len(xs[1]) * ss) |-> xs[((t - 1) % ss) + 1][((t - 1) \div ss) + 1]]

\* sum keeping only the single maximum, in every slot
KMaxSemiring_sum_top1(kk, xs, d) ==
    IF d = -1 THEN Ok([r \in 1..kk |-> SeqMax(Flatten(xs))]) ELSE Fail

KMaxSemiring_sum(kk, xs, d) ==
    IF d = -1 THEN Ok(TopKValues(Flatten(xs), kk)) ELSE Fail

\* the index pair with div and mod exchanged
SparseIndex_swapped(kk, ix) ==
    <<[r \in 1..Len(ix) |-> ix[r] \div kk], [r \in 1..Len(ix) |-> ix[r] % kk]>>

\* the index pair sparse_sum returns for the topk indices ix
SparseIndex(kk, ix) ==
    <<[r \in 1..Len(ix) |-> ix[r] % kk], [r \in 1..Len(ix) |-> ix[r] \div kk]>>

\* every (values, (slot, position)) KMaxSemiring.sparse_sum may return
KMaxSemiring_sparse_sum(kk, xs, d) ==
    IF d = -1
    THEN {[ok |-> TRUE, val |-> TopKValues(Flatten(xs), kk), ix |-> SparseIndex(kk, ix)] :
             ix \in TopKIndices(Flatten(xs), kk)}
    ELSE {[ok |-> FALSE, val |-> <<>>, ix |-> <<>>]}

\* c = a.view(k, 1, ...) + b.view(1, k, ...), viewed as (k * k, ...):
\* row t (0-based) is a[t // k] + b[t % k]
PairSums(kk, x, y, i) ==
    [t \in 1..(kk * kk) |-> Add(x[((t - 1) \div kk) + 1][i], y[((t - 1) % kk) + 1][i])]

\* KMaxSemiring without its own mul: the slot-wise a + b of _BaseLog
KMaxSemiring_mul_inherited(kk, x, y) == BaseLog_mul(x, y)

KMaxSemiring_mul(kk, x, y) ==
    [r \in 1..kk |-> [i \in 1..Len(x[1]) |-> TopKValues(PairSums(kk, x, y, i), kk)[r]]]

\* MaxSemiring.sparse_sum: every (max, (zeros, argmax)) torch.max may return
MaxSemiring_sparse_sum(xs, d) ==
    LET w  == WrapDim(d, 2)
        ss == Len(xs)
        n  == Len(xs[1])
        col(i) == [c \in 1..ss |-> xs[c][i]]
    IN  IF w = 1
        THEN {[ok |-> TRUE, val |-> [c \in 1..ss |-> SeqMax(xs[c])],
               ix |-> <<[c \in 1..ss |-> 0], am>>] :
                 am \in {g \in [1..ss -> 0..(n - 1)] :
                            \A c \in 1..ss : g[c] \in ArgMaxes(xs[c])}}
        ELSE IF w = 0
        THEN {[ok |-> TRUE, val |-> [i \in 1..n |-> SeqMax(col(i))],
               ix |-> <<[i \in 1..n |-> 0], am>>] :
                 am \in {g \in [1..n -> 0..(ss - 1)] :
                            \A i \in 1..n : g[i] \in ArgMaxes(col(i))}}
        ELSE {[ok |-> FALSE, val |-> <<>>, ix |-> <<>>]}

(* ------------------------- expectation semirings ----------------------- *)

ZeroRow(v) == [i \in 1..Len(v) |-> Sc(0)]

\* d = dim - 1 if dim > 0 else dim, applied to the (n,) tensor xs[0]:
\* whether the reduction goes through (no assertion, no IndexError)
InnerDimOk(d) == d # 0 /\ WrapDim(IF d > 0 THEN d - 1 ELSE d, 1) = 0

LogSoftmax(v) == [i \in 1..Len(v) |-> Sub(v[i], LogSumExp(v))]

Softmax(v) == [i \in 1..Len(v) |-> Exp2(LogSoftmax(v)[i])]

KLDivergenceSemiring_convert(xs) == <<xs[1], xs[2], ZeroRow(xs[1])>>

KLDivergenceSemiring_unconvert(xs) == xs[Len(xs)]

\* sum without the + log_sm_p.mul(sm_p) term
KLDivergenceSemiring_sum_noself(xs, d) ==
    IF ~InnerDimOk(d) THEN Fail
    ELSE LET log_sm_q == LogSoftmax(xs[2])
             sm_p == Softmax(xs[1])
         IN  Ok(<<LogSumExp(xs[1]), LogSumExp(xs[2]),
                  SeqSum([i \in 1..Len(xs[1]) |->
                      Sub(MulW(xs[3][i], sm_p[i]), MulW(log_sm_q[i], sm_p[i]))])>>)

KLDivergenceSemiring_sum(xs, d) ==
    IF ~InnerDimOk(d) THEN Fail
    ELSE LET log_sm_p == LogSoftmax(xs[1])
             log_sm_q == LogSoftmax(xs[2])
             sm_p == Softmax(xs[1])
         IN  Ok(<<LogSumExp(xs[1]), LogSumExp(xs[2]),
                  SeqSum([i \in 1..Len(xs[1]) |->
                      Add(Sub(MulW(xs[3][i], sm_p[i]), MulW(log_sm_q[i], sm_p[i])),
                          MulW(log_sm_p[i], sm_p[i]))])>>)

\* KLDivergenceSemiring without its own zero_mask_: Semiring.zero_mask_
\* with the class's zero = 0
KLDivergenceSemiring_zero_mask_inherited(xs, m) == Semiring_zero_mask_(xs, m, Sc(0))

KLDivergenceSemiring_zero_mask_(xs, m) ==
    [c \in 1..Len(xs) |-> [i \in 1..Len(xs[c]) |->
        IF m[i] THEN (IF c = 3 THEN Sc(0) ELSE NEGINF) ELSE xs[c][i]]]

KLDivergenceSemiring_zero_(xs) ==
    [c \in 1..Len(xs) |-> [i \in 1..Len(xs[c]) |-> IF c = 3 THEN Sc(0) ELSE NEGINF]]

KLDivergenceSemiring_one_(xs) == Fill(xs, Sc(0))

CrossEntropySemiring_convert(xs) == <<xs[1], xs[2], ZeroRow(xs[1])>>

CrossEntropySemiring_unconvert(xs) == xs[Len(xs)]

CrossEntropySemiring_sum(xs, d) ==
    IF ~InnerDimOk(d) THEN Fail
    ELSE LET log_sm_q == LogSoftmax(xs[2])
             sm_p == Softmax(xs[1])
         IN  Ok(<<LogSumExp(xs[1]), LogSumExp(xs[2]),
                  SeqSum([i \in 1..Len(xs[1]) |->
                      Sub(MulW(xs[3][i], sm_p[i]), MulW(log_sm_q[i], sm_p[i]))])>>)

CrossEntropySemiring_zero_mask_(xs, m) ==
    [c \in 1..Len(xs) |-> [i \in 1..Len(xs[c]) |->
        IF m[i] THEN (IF c = 3 THEN Sc(0) ELSE NEGINF) ELSE xs[c][i]]]

CrossEntropySemiring_zero_(xs) ==
    [c \in 1..Len(xs) |-> [i \in 1..Len(xs[c]) |-> IF c = 3 THEN Sc(0) ELSE NEGINF]]

CrossEntropySemiring_one_(xs) == Fill(xs, Sc(0))

EntropySemiring_convert(xs) == <<xs, ZeroRow(xs)>>

EntropySemiring_unconvert(xs) == xs[2]

EntropySemiring_sum(xs, d) ==
    IF ~InnerDimOk(d) THEN Fail
    ELSE LET log_sm == LogSoftmax(xs[1])
             sm == Softmax(xs[1])
         IN  Ok(<<LogSumExp(xs[1]),
                  SeqSum([i \in 1..Len(xs[1]) |->
                      Sub(MulW(xs[2][i], sm[i]), MulW(log_sm[i], sm[i]))])>>)

EntropySemiring_zero_mask_(xs, m) ==
    [c \in 1..Len(xs) |-> [i \in 1..Len(xs[c]) |->
        IF m[i] THEN (IF c = 1 THEN NEGINF ELSE Sc(0)) ELSE xs[c][i]]]

EntropySemiring_zero_(xs) ==
    [c \in 1..Len(xs) |-> [i \in 1..Len(xs[c]) |-> IF c = 1 THEN NEGINF ELSE Sc(0)]]

EntropySemiring_one_(xs) == Fill(xs, Sc(0))

RiskSemiring_convert(xs) == <<xs[1], xs[2], ZeroRow(xs[1])>>

RiskSemiring_unconvert(xs) == xs[Len(xs)]

RiskSemiring_sum(xs, d) ==
    IF ~InnerDimOk(d) THEN Fail
    ELSE LET sm_p == Softmax(xs[1])
         IN  Ok(<<LogSumExp(xs[1]), Sc(0),
                  SeqSum([i \in 1..Len(xs[1]) |->
                      MulW(Add(xs[2][i], xs[3][i]), sm_p[i])])>>)

RiskSemiring_zero_mask_(xs, m) ==
    [c \in 1..Len(xs) |-> [i \in 1..Len(xs[c]) |->
        IF m[i] THEN (IF c = 1 THEN NEGINF ELSE Sc(0)) ELSE xs[c][i]]]

RiskSemiring_zero_(xs) ==
    [c \in 1..Len(xs) |-> [i \in 1..Len(xs[c]) |-> IF c = 1 THEN NEGINF ELSE Sc(0)]]

RiskSemiring_one_(xs) == Fill(xs, Sc(0))

\* mul of the four expectation semirings: a + b
Expectation_mul(x, y) == [c \in 1..Len(x) |-> [i \in 1..Len(x[c]) |-> Add(x[c][i], y[c][i])]]

(* ----------------- the semiring interface, by semiring ----------------- *)

\* cls.size()
size(sm, kk) ==
    CASE sm = "KMaxSemiring" -> KMaxSemiring_size(kk)
      [] sm \in TwoStream -> 3
      [] sm = "EntropySemiring" -> 2
      [] OTHER -> 1

\* cls.convert of the potentials pt (of the list [pt, qt] for a two-stream semiring)
convert(sm, kk, pt, qt) ==
    CASE sm = "KMaxSemiring" -> KMaxSemiring_convert(kk, pt)
      [] sm = "KLDivergenceSemiring" -> KLDivergenceSemiring_convert(<<pt, qt>>)
      [] sm = "CrossEntropySemiring" -> CrossEntropySemiring_convert(<<pt, qt>>)
      [] sm = "RiskSemiring" -> RiskSemiring_convert(<<pt, qt>>)
      [] sm = "EntropySemiring" -> EntropySemiring_convert(pt)
      [] OTHER -> Semiring_convert(pt)

unconvert(sm, v) ==
    CASE sm = "KMaxSemiring" -> KMaxSemiring_unconvert(v)
      [] sm = "KLDivergenceSemiring" -> KLDivergenceSemiring_unconvert(v)
      [] sm = "CrossEntropySemiring" -> CrossEntropySemiring_unconvert(v)
      [] sm = "RiskSemiring" -> RiskSemiring_unconvert(v)
      [] sm = "EntropySemiring" -> EntropySemiring_unconvert(v)
      [] OTHER -> Semiring_unconvert(v)

mul(sm, kk, x, y) ==
    CASE sm = "StdSemiring" -> Base_mul(x, y)
      [] sm = "KMaxSemiring" -> KMaxSemiring_mul(kk, x, y)
      [] sm \in {"LogSemiring", "MaxSemiring"} -> BaseLog_mul(x, y)
      [] OTHER -> Expectation_mul(x, y)

\* cls.sum(xs, dim) of an (ssize, n) tensor: [ok, val]
sum(sm, kk, xs, d) ==
    CASE sm = "StdSemiring" -> StdSemiring_sum(xs, d)
      [] sm = "LogSemiring" -> BaseLog_sum(xs, d)
      [] sm = "MaxSemiring" -> MaxSemiring_sum(xs, d)
      [] sm = "KMaxSemiring" -> KMaxSemiring_sum(kk, xs, d)
      [] sm = "KLDivergenceSemiring" -> KLDivergenceSemiring_sum(xs, d)
      [] sm = "CrossEntropySemiring" -> CrossEntropySemiring_sum(xs, d)
      [] sm = "EntropySemiring" -> EntropySemiring_sum(xs, d)
      [] OTHER -> RiskSemiring_sum(xs, d)

\* cls.sparse_sum(xs, dim), of the two semirings that define it
sparse_sum(sm, kk, xs, d) ==
    IF sm = "KMaxSemiring" THEN KMaxSemiring_sparse_sum(kk, xs, d)
    ELSE MaxSemiring_sparse_sum(xs, d)

zero_(sm, xs) ==
    CASE sm = "StdSemiring" -> Base_zero_(xs)
      [] sm \in {"LogSemiring", "MaxSemiring", "KMaxSemiring"} -> BaseLog_zero_(xs)
      [] sm = "KLDivergenceSemiring" -> KLDivergenceSemiring_zero_(xs)
      [] sm = "CrossEntropySemiring" -> CrossEntropySemiring_zero_(xs)
      [] sm = "EntropySemiring" -> EntropySemiring_zero_(xs)
      [] OTHER -> RiskSemiring_zero_(xs)

one_(sm, xs) ==
    CASE sm = "StdSemiring" -> Base_one_(xs)
      [] sm \in {"LogSemiring", "MaxSemiring"} -> BaseLog_one_(xs)
      [] sm = "KMaxSemiring" -> KMaxSemiring_one_(xs)
      [] sm = "KLDivergenceSemiring" -> KLDivergenceSemiring_one_(xs)
      [] sm = "CrossEntropySemiring" -> CrossEntropySemiring_one_(xs)
      [] sm = "EntropySemiring" -> EntropySemiring_one_(xs)
      [] OTHER -> RiskSemiring_one_(xs)

zero_mask_(sm, xs, m) ==
    CASE sm = "StdSemiring" -> Semiring_zero_mask_(xs, m, Base_zero)
      [] sm \in {"LogSemiring", "MaxSemiring", "KMaxSemiring"} ->
             Semiring_zero_mask_(xs, m, BaseLog_zero)
      [] sm = "KLDivergenceSemiring" -> KLDivergenceSemiring_zero_mask_(xs, m)
      [] sm = "CrossEntropySemiring" -> CrossEntropySemiring_zero_mask_(xs, m)
      [] sm = "EntropySemiring" -> EntropySemiring_zero_mask_(xs, m)
      [] OTHER -> RiskSemiring_zero_mask_(xs, m)

\* Semiring.plus: cls.sum(torch.stack([a, b], dim=-1)); the (ssize, n, 2)
\* stack is reduced over its last axis, position by position
plus(sm, kk, x, y) ==
    LET st  == Stack(x, y)
        per == [i \in 1..Len(x[1]) |-> sum(sm, kk, At(st, i), -1).val]
    IN  [c \in 1..Len(per[1]) |-> [i \in 1..Len(x[1]) |-> per[i][c]]]

(* --------------------------- the caller's state ------------------------ *)
(* sem, k : the semiring in use (k is the parameter of KMaxSemiring(k))     *)
(* p, q   : the raw potentials the dynamic program holds                    *)
(* a, b   : the two semiring values it holds (<<>>: none yet)               *)
(* op     : the last operation it called; dim, mask: that call's arguments  *)
(* res, idx, err : what the call returned (err: it raised, nothing returned)*)
(* fed    : how many results were stored back as an operand                 *)

n == Len(p)

Pots == UNION {[1..m -> PotVals] : m \in 1..MaxN}

QPots(m) == [1..m -> QVals]

\* the dim arguments tried on a tensor of two axes
Dims == -3..2

Start(S, free) ==
    /\ sem \in S
    /\ k \in (IF sem = "KMaxSemiring" THEN 1..MaxK ELSE {1})
    /\ p \in Pots
    /\ q \in (IF sem \in free THEN QPots(Len(p)) ELSE {p})
    /\ a = <<>>
    /\ b = <<>>
    /\ op = "init"
    /\ res = <<>>
    /\ idx = <<>>
    /\ err = FALSE
    /\ dim = -1
    /\ mask = [i \in 1..Len(p) |-> FALSE]
    /\ fed = 0

\* a call that stores a value: nothing is returned to look at
Stored(name) ==
    /\ op' = name
    /\ res' = <<>>
    /\ idx' = <<>>
    /\ err' = FALSE
    /\ UNCHANGED <<sem, k, p, q, dim, fed>>

\* a call that returns r = [ok, val] and leaves the operands alone
Returned(name, r, d) ==
    /\ op' = name
    /\ res' = r.val
    /\ err' = ~r.ok
    /\ dim' = d
    /\ UNCHANGED <<sem, k, p, q, a, b, mask, fed>>

\* the calls that return a tensor and leave the operands as they are
Calls == {"mul", "plus", "sum", "sparse_sum", "unconvert"}

\* the caller has stored or dropped the last returned tensor.  A call does
\* not change a or b, so the operands of a state that holds a result are
\* those of the state the call was made in: making every call from there
\* makes every call on every pair of operands
Ready == op \notin Calls

ConvertA ==
    /\ a = <<>>
    /\ a' = convert(sem, k, Pot(p), Pot(q))
    /\ Stored("convert")
    /\ UNCHANGED <<b, mask>>

ConvertB ==
    /\ b = <<>>
    /\ b' = convert(sem, k, Pot(q), Pot(p))
    /\ Stored("convert")
    /\ UNCHANGED <<a, mask>>

\* a = semiring.zero_(torch.zeros((ssize, n)))
ZeroA ==
    /\ a = <<>>
    /\ a' = zero_(sem, Zeros(size(sem, k), n))
    /\ Stored("zero_")
    /\ UNCHANGED <<b, mask>>

OneA ==
    /\ a = <<>>
    /\ a' = one_(sem, Zeros(size(sem, k), n))
    /\ Stored("one_")
    /\ UNCHANGED <<b, mask>>

ZeroB ==
    /\ b = <<>>
    /\ b' = zero_(sem, Zeros(size(sem, k), n))
    /\ Stored("zero_")
    /\ UNCHANGED <<a, mask>>

ZeroMask(m) ==
    /\ a # <<>>
    /\ op = "convert"
    /\ a' = zero_mask_(sem, a, m)
    /\ mask' = m
    /\ Stored("zero_mask_")
    /\ UNCHANGED b

Mul ==
    /\ Ready
    /\ a # <<>> /\ b # <<>>
    /\ idx' = <<>>
    /\ Returned("mul", Ok(mul(sem, k, a, b)), dim)

Plus ==
    /\ Ready
    /\ a # <<>> /\ b # <<>>
    /\ idx' = <<>>
    /\ Returned("plus", Ok(plus(sem, k, a, b)), dim)

Sum(d) ==
    /\ Ready
    /\ a # <<>>
    /\ idx' = <<>>
    /\ Returned("sum", sum(sem, k, a, d), d)

SparseSum(d) ==
    /\ Ready
    /\ a # <<>>
    /\ sem \in {"MaxSemiring", "KMaxSemiring"}
    /\ \E r \in sparse_sum(sem, k, a, d) :
          /\ idx' = r.ix
          /\ Returned("sparse_sum", r, d)

Unconvert ==
    /\ Ready
    /\ a # <<>>
    /\ idx' = <<>>
    /\ Returned("unconvert", Ok(unconvert(sem, a)), dim)

\* the result of mul or plus becomes the next operand
FeedA ==
    /\ op \in {"mul", "plus"}
    /\ fed < MaxFeed
    /\ a' = res
    /\ op' = "feed"
    /\ res' = <<>>
    /\ idx' = <<>>
    /\ err' = FALSE
    /\ fed' = fed + 1
    /\ UNCHANGED <<sem, k, p, q, b, dim, mask>>

FeedB ==
    /\ op \in {"mul", "plus"}
    /\ fed < MaxFeed
    /\ b' = res
    /\ op' = "feed"
    /\ res' = <<>>
    /\ idx' = <<>>
    /\ err' = FALSE
    /\ fed' = fed + 1
    /\ UNCHANGED <<sem, k, p, q, a, dim, mask>>

(* k-best recursion: two converted values, combined and reduced *)
Init == Start({"MaxSemiring", "KMaxSemiring"}, {"MaxSemiring", "KMaxSemiring"})

Next ==
    \/ ConvertA
    \/ ConvertB
    \/ Mul
    \/ Plus
    \/ Sum(-1)
    \/ FeedA

Spec == Init /\ [][Next]_vars

(* k-best reduction with back-pointers: a value, its square and its double *)
InitSparse == Start({"MaxSemiring", "KMaxSemiring"}, {})

NextSparse ==
    \/ ConvertA
    \/ ConvertB
    \/ Mul
    \/ Plus
    \/ SparseSum(-1)
    \/ FeedA

SpecSparse == InitSparse /\ [][NextSparse]_vars

(* identities: a filled tensor against a value, every semiring *)
InitIdentity == Start(Semirings, Semirings)

NextIdentity ==
    \/ ZeroA
    \/ OneA
    \/ ConvertB
    \/ ZeroB
    \/ Mul
    \/ Plus
    \/ FeedB

SpecIdentity == InitIdentity /\ [][NextIdentity]_vars

(* entering, masking, reducing over any dim and leaving, every semiring *)
InitInOut == Start(Semirings, TwoStream)

NextInOut ==
    \/ ConvertA
    \/ \E m \in [1..n -> BOOLEAN] : ZeroMask(m)
    \/ \E d \in Dims : Sum(d)
    \* on converted values only: among the equal entries of a masked value
    \* torch.topk may report any, one state each
    \/ \E d \in Dims : op = "convert" /\ SparseSum(d)
    \/ Unconvert

SpecInOut == InitInOut /\ [][NextInOut]_vars

(* ------------------------------- claims -------------------------------- *)

Descending(v) == \A r \in 1..(Len(v) - 1) : Leq(v[r + 1], v[r])

\* how many candidates equal x, and how many are larger
CountEq(c, x) == Cardinality({t \in DOMAIN c : c[t] = x})

CountGt(c, x) == Cardinality({t \in DOMAIN c : ~Leq(c[t], x)})

\* v is the kk largest of the candidates c, as a multiset, largest first:
\* each score occurs in v as often as the kk places left by the larger
\* candidates allow
IsTopK(v, c, kk) ==
    /\ Len(v) = kk
    /\ Descending(v)
    /\ \A x \in {c[t] : t \in DOMAIN c} \cup {v[r] : r \in DOMAIN v} :
          LET room == IF kk > CountGt(c, x) THEN kk - CountGt(c, x) ELSE 0
          IN  CountEq(v, x) = (IF CountEq(c, x) < room THEN CountEq(c, x) ELSE room)

NoMask == \A i \in 1..n : ~mask[i]

\* C1: KMaxSemiring(k).mul(a, b) returns, at every position, exactly k
\* scores in descending order that are the k largest of the k*k pairwise
\* sums a[i] + b[j]
C1_MulTopK ==
    (sem = "KMaxSemiring" /\ op = "mul") =>
        /\ ~err
        /\ Len(res) = k
        /\ \A r \in 1..k : Len(res[r]) = n
        /\ \A i \in 1..n :
              IsTopK([r \in 1..k |-> res[r][i]],
                     [pr \in (1..k) \X (1..k) |-> Add(a[pr[1]][i], b[pr[2]][i])], k)

\* C1 witness: a product of a fed-back product, k >= 2, two positions
C1_Witness ==
    /\ sem = "KMaxSemiring" /\ op = "mul" /\ k >= 2 /\ n >= 2 /\ fed = 1
    /\ res[2][1].s = 1

\* C5: KMaxSemiring(k).sum(xs, dim=-1) returns, per remaining position, the
\* k largest of the k*n scores of all slots and all entries of the last
\* axis, in descending order (for plus, the last axis is the stacked pair);
\* for potentials [1, 2, 3] and k = 2 it returns [3, 2]
C5_SumTopK ==
    /\ (sem = "KMaxSemiring" /\ op = "sum" /\ dim = -1) =>
           /\ ~err
           /\ IsTopK(res, [pr \in (1..k) \X (1..n) |-> a[pr[1]][pr[2]]], k)
           /\ (k = 2 /\ p = <<1, 2, 3>> /\ fed = 0) => res = <<Sc(3), Sc(2)>>
    /\ (sem = "KMaxSemiring" /\ op = "plus") =>
           /\ ~err
           /\ Len(res) = k
           /\ \A i \in 1..n :
                 IsTopK([r \in 1..k |-> res[r][i]],
                        [pr \in (1..k) \X (1..2) |->
                            IF pr[2] = 1 THEN a[pr[1]][i] ELSE b[pr[1]][i]], k)

\* C5 witness: the sum of convert([1, 2, 3]) for k = 2
C5_Witness ==
    /\ sem = "KMaxSemiring" /\ op = "sum" /\ dim = -1
    /\ k = 2 /\ p = <<1, 2, 3>> /\ fed = 0 /\ ~err

\* C6: with k = 1, KMaxSemiring(1).sum (also when called by plus) equals
\* MaxSemiring.sum and KMaxSemiring(1).mul equals MaxSemiring.mul on the
\* same operands
C6_K1IsMax ==
    (sem = "KMaxSemiring" /\ k = 1) =>
        /\ op = "sum" => (~err /\ MaxSemiring_sum(a, dim) = Ok(res))
        /\ op = "plus" => (~err /\ res = plus("MaxSemiring", 1, a, b))
        /\ op = "mul" => (~err /\ res = BaseLog_mul(a, b))

\* C6 witness: k = 1, the sum of a fed-back product over several entries
C6_Witness ==
    /\ sem = "KMaxSemiring" /\ k = 1 /\ op = "sum" /\ fed = 1 /\ n >= 2 /\ ~err

\* C10: KMaxSemiring(k).sparse_sum(xs, dim=-1) returns the values of sum
\* and a pair (slot, position), each rank's value being the input score
\* xs[slot][position], with 0 <= slot < k and 0 <= position < n
C10_SparseIndex ==
    (sem = "KMaxSemiring" /\ op = "sparse_sum" /\ dim = -1) =>
        /\ ~err
        /\ Ok(res) = KMaxSemiring_sum(k, a, -1)
        /\ Len(idx) = 2
        /\ \A r \in 1..k :
              /\ idx[1][r] \in 0..(k - 1)
              /\ idx[2][r] \in 0..(n - 1)
              /\ res[r] = a[idx[1][r] + 1][idx[2][r] + 1]

\* C10 witness: a rank taken from a slot other than the first and another
\* from a position other than the first
C10_Witness ==
    /\ sem = "KMaxSemiring" /\ op = "sparse_sum" /\ ~err /\ k >= 2 /\ n >= 2
    /\ \E r \in 1..k : idx[1][r] > 0
    /\ \E r \in 1..k : idx[2][r] > 0

Expectation == {"KLDivergenceSemiring", "CrossEntropySemiring",
                "EntropySemiring", "RiskSemiring"}

\* C2: for every semiring, mul(one_(x), y) equals y
C2_OneIsIdentity ==
    (op = "mul" /\ a = one_(sem, a)) => res = b

\* C3: for Counting, Max and K-Max, sum over the last axis of
\* stack([zero_(x), y]) equals y, for every y convert, mul and sum can reach
C3_ZeroIsIdentity ==
    (sem \in {"StdSemiring", "MaxSemiring", "KMaxSemiring"}
        /\ op = "plus" /\ a = zero_(sem, a)) => res = b

\* what convert was given: the potentials, or the list [p, q]
Input == IF sem \in TwoStream THEN <<Pot(p), Pot(q)>> ELSE Pot(p)

\* C4 as stated: for every semiring, unconvert(convert(p)) equals p
C4_RoundTripAll ==
    (op = "unconvert" /\ NoMask) => res = Input

\* C4 as amended: unconvert(convert(p)) equals p for Counting, Log, Max and
\* K-Max; for KL-Divergence, Cross-Entropy, Entropy and Risk it is the
\* all-zero statistic of the potentials' shape
C4_RoundTrip ==
    (op = "unconvert" /\ NoMask) =>
        /\ ~err
        /\ sem \notin Expectation => res = Pot(p)
        /\ sem \in Expectation => res = [i \in 1..n |-> Sc(0)]

\* C4 witness: a K-Max value of several slots unconverted
C4_Witness ==
    /\ op = "unconvert" /\ NoMask /\ sem = "KMaxSemiring" /\ k >= 2 /\ n >= 2

\* dim names the last / the leading axis of an (ssize, n) tensor
DesignatesLast(d) == d \in {-1, 1}

DesignatesLeading(d) == d \in {0, -2}

\* C7: K-Max sum and sparse_sum fail for every dim that does not designate
\* the last axis and succeed for every dim that does; sum of the expectation
\* semirings fails whenever dim designates the leading axis
C7_UnsupportedAxis ==
    /\ (sem = "KMaxSemiring" /\ op \in {"sum", "sparse_sum"}) =>
           (err <=> ~DesignatesLast(dim))
    /\ (sem \in Expectation /\ op = "sum" /\ DesignatesLeading(dim)) => err

\* the value zero_ writes into component c, as the claim lists it
ZeroComponent(sm, c) ==
    CASE sm = "StdSemiring" -> Sc(0)
      [] sm \in {"LogSemiring", "MaxSemiring", "KMaxSemiring"} -> NEGINF
      [] sm = "EntropySemiring" -> <<NEGINF, Sc(0)>>[c]
      [] sm \in {"KLDivergenceSemiring", "CrossEntropySemiring"} ->
             <<NEGINF, NEGINF, Sc(0)>>[c]
      [] OTHER -> <<NEGINF, Sc(0), Sc(0)>>[c]

\* C8: zero_mask_(xs, mask) leaves in every masked position of every
\* component the value zero_ writes there, and every unmasked position as
\* it was
C8_ZeroMaskFrame ==
    [][op' = "zero_mask_" =>
          /\ Len(a') = size(sem, k)
          /\ \A c \in 1..Len(a') :
                /\ Len(a'[c]) = n
                /\ \A i \in 1..n :
                      IF mask'[i]
                      THEN /\ a'[c][i] = ZeroComponent(sem, c)
                           /\ a'[c][i] = zero_(sem, a)[c][i]
                      ELSE a'[c][i] = a[c][i]]_vars

\* C8 witness: a KL-divergence value masked in some positions, not in all
C8_Witness ==
    /\ op = "zero_mask_" /\ sem = "KLDivergenceSemiring"
    /\ \E i, j \in 1..n : mask[i] /\ ~mask[j]

\* C9: with p = q, KLDivergenceSemiring.sum(convert([p, q]), dim) over a
\* non-leading axis returns a running-KL component of exactly 0 and two
\* equal inside components
C9_KLOfEqualStreams ==
    (sem = "KLDivergenceSemiring" /\ op = "sum" /\ p = q /\ NoMask
        /\ DesignatesLast(dim)) =>
        /\ ~err
        /\ Len(res) = 3
        /\ KLDivergenceSemiring_unconvert(res) = Sc(0)
        /\ res[1] = res[2]

\* C9 witness: a non-uniform p = q summed over the last axis given as dim 1
C9_Witness ==
    /\ sem = "KLDivergenceSemiring" /\ op = "sum" /\ ~err /\ NoMask
    /\ p = q /\ p = <<1, 3>> /\ dim = 1

=============================================================================
